---- MODULE Spec2Model ----
(***************************************************************************)
(* Model of tools/integration-tests/tester/framework/docker.go: the        *)
(* DockerContainer handle, its role configuration builders and the calls   *)
(* it issues to the Docker engine.                                         *)
(*                                                                         *)
(* Strings are TLA+ strings: Sprintf and + are concatenation (\o), so a    *)
(* flag is the text the engine receives.  The engine is the collaborator   *)
(* behind client.Client: a table of containers, each with a name, a run    *)
(* state, its network endpoints and its log.                               *)
(***************************************************************************)
EXTENDS Integers, Sequences, FiniteSets, TLC

\* ------------------------------------------------------------------ bounds
MaxHandles == 2      \* DockerContainer objects a scenario constructs
MaxContainers == 2   \* containers the engine creates in one run
MaxTargets == 2      \* length of CreatePumba's targetIPs
MaxTimeouts == 2     \* length of Stop's variadic optionalTimeout
MaxLog == 2          \* log lines a container writes

Handles == 1..MaxHandles

\* ------------------------------------------------------------ input domains
Names == {"peer-1", "pumba"}
QueryNames == Names \cup {"/" \o n : n \in Names}
Seeds == {"seedA", "seedB"}
Networks == {"netA", "netB", "netC"}
TargetIPs == {"10.1.0.2", "10.1.0.3"}
Timeouts == {5, 240}

\* ------------------------------------------------------------------ strings
Digits == <<"0", "1", "2", "3", "4", "5", "6", "7", "8", "9">>

RECURSIVE Itoa(_)
\* fmt's %d of a non-negative int.
Itoa(n) == IF n < 10 THEN Digits[n + 1] ELSE Itoa(n \div 10) \o Digits[(n % 10) + 1]

RECURSIVE Join(_, _)
\* strings.Join(elems, sep)
Join(elems, sep) ==
    IF elems = <<>> THEN ""
    ELSE IF Len(elems) = 1 THEN elems[1]
    ELSE elems[1] \o sep \o Join(Tail(elems), sep)

HasPrefix(s, p) == Len(s) >= Len(p) /\ SubSeq(s, 1, Len(p)) = p
TrimPrefix(s, p) == SubSeq(s, Len(p) + 1, Len(s))

\* ------------------------------------------------------------------- state
VARIABLES
    pkg,         \* the package-level values the builders read
    handles,     \* handles[h] = [alloc, client, id]: the DockerContainer objects
    containers,  \* engine: id -> [num, name, state, exitCode, networks, log]
    nextNum,     \* engine: containers created so far
    call,        \* the last method call: [op, h, args, err, val]
    req,         \* the engine request of the last call and its response: [op, id, arg, resp]
    stream,      \* the io.ReadCloser the last successful Logs returned
    hist         \* hist[h] = [name, started]: the name h last created, and whether h started it

vars == <<pkg, handles, containers, nextNum, call, req, stream, hist>>

\* The values of coordinatorSeed, coordinatorAddress, ... are set in the
\* package's parameter file; the builders only format them.
PkgChoices ==
    { [ disabledPluginsEntryNode |-> "dashboard,profiling,gossip",
        coordinatorSeed |-> "COOSEED9A",
        coordinatorAddress |-> "JFQ999DVN9",
        ParaPoWDifficulty |-> 1,
        coordinatorIntervalSeconds |-> 10,
        coordinatorSecurityLevel |-> 1,
        coordinatorMerkleTreeDepth |-> 12,
        APIPort |-> 14265 ],
      [ disabledPluginsEntryNode |-> "",
        coordinatorSeed |-> "COOSEED9B",
        coordinatorAddress |-> "XYZ9ADDR",
        ParaPoWDifficulty |-> 14,
        coordinatorIntervalSeconds |-> 3,
        coordinatorSecurityLevel |-> 2,
        coordinatorMerkleTreeDepth |-> 7,
        APIPort |-> 80 ] }

\* The client every handle borrows.
DockerSocket == "unix:///var/run/docker.sock"
newDockerClient == [host |-> DockerSocket, version |-> "", httpClient |-> "nil", httpHeaders |-> "nil"]

\* ----------------------------------------------------------------- engine
NoId == ""
IdOf(num) == "c" \o Itoa(num)

ErrTransport == "error during connect"
ErrConflict == "Conflict. The container name is already in use"
ErrNoSuchContainer(id) == "Error: No such container: " \o id
ErrEndpoint(net) == "endpoint error on network " \o net
EngineErrors ==
    {ErrTransport, ErrConflict}
    \cup {ErrNoSuchContainer(IdOf(n)) : n \in 1..(MaxContainers + 1)}
    \cup {ErrNoSuchContainer(NoId)}
    \cup {ErrEndpoint(net) : net \in Networks}

Exists(id) == id \in DOMAIN containers
NameInUse(name) == \E c \in DOMAIN containers : containers[c].name = name

\* The address the engine assigns to container number num on network net.
NetworkIP(net, num) ==
    (CASE net = "netA" -> "10.1.0." [] net = "netB" -> "10.2.0." [] OTHER -> "10.3.0.")
    \o Itoa(num + 1)

RECURSIVE ListFrom(_)
\* The engine's answer to ContainerList with the zero-valued options (All is
\* false): the running containers, newest first, each with its names, the
\* primary one being "/" followed by the name given at creation.
ListFrom(num) ==
    IF num = 0 THEN <<>>
    ELSE (IF Exists(IdOf(num)) /\ containers[IdOf(num)].state = "running"
          THEN << [ID |-> IdOf(num), Names |-> <<"/" \o containers[IdOf(num)].name>>] >>
          ELSE <<>>) \o ListFrom(num - 1)

ContainerList == ListFrom(nextNum)

NoCall == [op |-> "none", h |-> 0, args |-> <<>>, err |-> "", val |-> ""]
NoReq == [op |-> "none", id |-> NoId, arg |-> <<>>, resp |-> <<>>]
NoStream == [open |-> FALSE, id |-> NoId, follow |-> FALSE, at |-> 0, pos |-> 0, eof |-> FALSE]

Init ==
    /\ pkg \in PkgChoices
    /\ handles = [h \in Handles |-> [alloc |-> FALSE, client |-> newDockerClient, id |-> NoId]]
    /\ containers = <<>>
    /\ nextNum = 0
    /\ call = NoCall
    /\ req = NoReq
    /\ stream = NoStream
    /\ hist = [h \in Handles |-> [name |-> "", started |-> FALSE]]

\* ------------------------------------------------------------ constructors
\* A run-time panic ends the test process: nothing is called after it.
ErrPanic == "panic: runtime error: index out of range"
Panicked == call.err = ErrPanic

\* The next object a constructor makes: objects are numbered as they are made.
Fresh(h) ==
    /\ ~Panicked
    /\ ~handles[h].alloc
    /\ \A g \in Handles : g < h => handles[g].alloc

\* A method can be called on a constructed object.
Callable(h) == ~Panicked /\ handles[h].alloc

\* NewDockerContainer(c)
NewDockerContainer(h) ==
    /\ Fresh(h)
    /\ handles' = [handles EXCEPT ![h] = [alloc |-> TRUE, client |-> newDockerClient, id |-> NoId]]
    /\ call' = [op |-> "NewDockerContainer", h |-> h, args |-> <<>>, err |-> "", val |-> ""]
    /\ req' = NoReq
    /\ UNCHANGED <<pkg, containers, nextNum, stream, hist>>

\* Mutant: the scan takes the first container listed, whatever its name.
FindAnyName(list, name) ==
    IF list = <<>> THEN [found |-> FALSE, id |-> NoId]
    ELSE [found |-> TRUE, id |-> Head(list).ID]

\* NewDockerContainerFromExisting: the scan of the container list.
RECURSIVE FindByName(_, _)
FindByName(list, name) ==
    IF list = <<>> THEN [found |-> FALSE, id |-> NoId]
    ELSE IF Head(list).Names[1] = name THEN [found |-> TRUE, id |-> Head(list).ID]
    ELSE FindByName(Tail(list), name)

ErrNotFound(name) == "could not find container with name '" \o name \o "'"

\* NewDockerContainerFromExisting(c, name) given the engine's answer to
\* ContainerList (an error, or the list): the error and the handle returned.
FromExistingResult(listErr, list, name) ==
    IF listErr # "" THEN [err |-> listErr, handle |-> "nil"]
    ELSE IF FindByName(list, name).found
         THEN [err |-> "", handle |-> [alloc |-> TRUE, client |-> newDockerClient,
                                       id |-> FindByName(list, name).id]]
         ELSE [err |-> ErrNotFound(name), handle |-> "nil"]

NewDockerContainerFromExisting(h, name, ok) ==
    /\ Fresh(h)
    /\ LET listErr == IF ok THEN "" ELSE ErrTransport
           list == IF ok THEN ContainerList ELSE <<>>
           r == FromExistingResult(listErr, list, name)
       IN /\ req' = [op |-> "ContainerList", id |-> NoId, arg |-> <<>>,
                     resp |-> [err |-> listErr, list |-> list]]
          /\ call' = [op |-> "NewDockerContainerFromExisting", h |-> IF r.err = "" THEN h ELSE 0,
                      args |-> <<name>>, err |-> r.err,
                      val |-> IF r.err = "" THEN r.handle.id ELSE "nil"]
          /\ handles' = IF r.err = "" THEN [handles EXCEPT ![h] = r.handle] ELSE handles
    /\ UNCHANGED <<pkg, containers, nextNum, stream, hist>>

\* ---------------------------------------------------------------- creation
\* CreateContainer's choice of the host configuration among the variadic ones.
HostConfigOf(hostConfigs) == IF Len(hostConfigs) > 0 THEN hostConfigs[1] ELSE "nil"

\* The handle's id after CreateContainer, given the engine's response.
IdAfterCreate(old, respErr, respID) == IF respErr # "" THEN old ELSE respID

\* CreateContainer(name, containerConfig, hostConfigs...), called as method op
\* with arguments args; ok: whether the engine accepts the request.
DoCreate(h, op, args, name, containerConfig, hostConfigs, ok) ==
    /\ Callable(h)
    /\ ok => nextNum < MaxContainers
    /\ LET accepted == ok /\ ~NameInUse(name)
           respErr == IF accepted THEN ""
                      ELSE IF ok THEN ErrConflict ELSE ErrTransport
           respID == IF accepted THEN IdOf(nextNum + 1) ELSE NoId
       IN /\ req' = [op |-> "ContainerCreate", id |-> NoId,
                     arg |-> [config |-> containerConfig,
                              hostConfig |-> HostConfigOf(hostConfigs),
                              name |-> name],
                     resp |-> [err |-> respErr, ID |-> respID]]
          /\ containers' =
                IF accepted
                THEN [c \in DOMAIN containers \cup {respID} |->
                        IF c = respID
                        THEN [num |-> nextNum + 1, name |-> name, state |-> "created",
                              exitCode |-> 0, networks |-> <<>>, log |-> 0]
                        ELSE containers[c]]
                ELSE containers
          /\ nextNum' = IF accepted THEN nextNum + 1 ELSE nextNum
          /\ handles' = [handles EXCEPT ![h].id = IdAfterCreate(@, respErr, respID)]
          /\ call' = [op |-> op, h |-> h, args |-> args, err |-> respErr, val |-> ""]
          /\ hist' = IF accepted THEN [hist EXCEPT ![h] = [name |-> name, started |-> FALSE]]
                     ELSE hist
    /\ UNCHANGED <<pkg, stream>>

PlainConfig == [Image |-> "hornet:dev", ExposedPorts |-> {}, Env |-> <<>>, Cmd |-> <<>>]

CreateContainer(h, name, ok) ==
    DoCreate(h, "CreateContainer", <<name>>, name, PlainConfig, <<>>, ok)

\* Mutant: the entry-node list is left to the node's configuration file.
EntryNodeConfigKeepsEntryNodes(seed) ==
    [ Image |-> "hornet:dev",
      ExposedPorts |-> {},
      Env |-> <<>>,
      Cmd |-> << "--logger.level=debug",
                 "--node.disablePlugins=" \o pkg.disabledPluginsEntryNode,
                 "--autopeering.seed=base58:" \o seed >> ]

\* CreateHornetEntryNode's container.Config
EntryNodeConfig(seed) ==
    [ Image |-> "hornet:dev",
      ExposedPorts |-> {},
      Env |-> <<>>,
      Cmd |-> << "--logger.level=debug",
                 "--node.disablePlugins=" \o pkg.disabledPluginsEntryNode,
                 "--autopeering.entryNodes=",
                 "--autopeering.seed=base58:" \o seed >> ]

CreateHornetEntryNode(h, name, seed, ok) ==
    DoCreate(h, "CreateHornetEntryNode", <<name, seed>>, name, EntryNodeConfig(seed), <<>>, ok)

\* Mutant: the Coordinator plugin is never enabled.
EnabledPluginsNone(config) == <<>>

\* The plugins CreateHornetPeer enables.
EnabledPlugins(config) == IF config.Coordinator THEN <<"Coordinator">> ELSE <<>>

\* Mutant: the coordinator flags are appended only for a coordinator.
CoordinatorFlagsIfRequested(config) ==
    IF config.Coordinator
    THEN << "--coordinator.mwm=" \o Itoa(pkg.ParaPoWDifficulty),
            "--coordinator.address=" \o pkg.coordinatorAddress,
            "--coordinator.intervalSeconds=" \o Itoa(pkg.coordinatorIntervalSeconds),
            "--coordinator.securityLevel=" \o Itoa(pkg.coordinatorSecurityLevel),
            "--coordinator.merkleTreeDepth=" \o Itoa(pkg.coordinatorMerkleTreeDepth) >>
    ELSE <<>>

\* The coordinator flags of CreateHornetPeer's command line.
CoordinatorFlags(config) ==
    << "--coordinator.mwm=" \o Itoa(pkg.ParaPoWDifficulty),
       "--coordinator.address=" \o pkg.coordinatorAddress,
       "--coordinator.intervalSeconds=" \o Itoa(pkg.coordinatorIntervalSeconds),
       "--coordinator.securityLevel=" \o Itoa(pkg.coordinatorSecurityLevel),
       "--coordinator.merkleTreeDepth=" \o Itoa(pkg.coordinatorMerkleTreeDepth) >>

\* CreateHornetPeer's container.Config
PeerConfig(config) ==
    [ Image |-> "hornet:dev",
      ExposedPorts |-> {Itoa(pkg.APIPort) \o "/tcp"},
      Env |-> << "COO_SEED=" \o pkg.coordinatorSeed >>,
      Cmd |-> << "--logger.level=debug",
                 "--node.disablePlugins=" \o config.DisabledPlugins,
                 "--node.enablePlugins=" \o Join(EnabledPlugins(config), ",") >>
              \o CoordinatorFlags(config)
              \o << "--snapshots.loadType=global",
                    "--snapshots.global.path=snapshot.csv",
                    "--snapshots.global.index=0",
                    "--snapshots.local.path=" \o config.SnapshotFilePath,
                    "--httpAPI.bindAddress=" \o Itoa(pkg.APIPort),
                    "--autopeering.seed=base58:" \o config.AutopeeringSeed,
                    "--autopeering.entryNodes=" \o config.EntryNodePublicKey
                        \o "@" \o config.EntryNodeHost \o ":14626" >> ]

PeerHostConfig == [Binds |-> <<"hornet-testing-assets:/assets:rw">>]

CreateHornetPeer(h, config, ok) ==
    DoCreate(h, "CreateHornetPeer", <<config>>, config.Name, PeerConfig(config),
             <<PeerHostConfig>>, ok)

\* Mutant: the target flags are appended last IP first.
TargetFlagsReversed(cmd, targetIPs) ==
    cmd \o [i \in 1..Len(targetIPs) |-> "--target=" \o targetIPs[Len(targetIPs) + 1 - i]]

RECURSIVE TargetFlags(_, _)
\* CreatePumba's loop: one --target flag appended to cmd per IP.
TargetFlags(cmd, targetIPs) ==
    IF targetIPs = <<>> THEN cmd
    ELSE TargetFlags(Append(cmd, "--target=" \o Head(targetIPs)), Tail(targetIPs))

\* CreatePumba's command line
PumbaCmd(containerName, targetIPs) ==
    TargetFlags(<<"--log-level=debug", "netem", "--duration=100m">>, targetIPs)
    \o <<"--tc-image=gaiadocker/iproute2", "loss", "--percent=100", containerName>>

PumbaHostConfig == [Binds |-> <<"/var/run/docker.sock:/var/run/docker.sock:ro">>]

CreatePumba(h, name, containerName, targetIPs, ok) ==
    DoCreate(h, "CreatePumba", <<name, containerName, targetIPs>>, name,
             [Image |-> "gaiaadm/pumba:0.7.2", ExposedPorts |-> {}, Env |-> <<>>,
              Cmd |-> PumbaCmd(containerName, targetIPs)],
             <<PumbaHostConfig>>, ok)

\* ---------------------------------------------------------------- lifecycle
\* The engine's answer to a request on container id; ok: the engine is reachable.
EngineErr(id, ok) ==
    IF ~ok THEN ErrTransport
    ELSE IF ~Exists(id) THEN ErrNoSuchContainer(id)
    ELSE ""

ExitCodes == {0, 137}

\* ConnectToNetwork(networkID)
ConnectToNetwork(h, networkID, ok) ==
    /\ Callable(h)
    /\ LET id == handles[h].id
           e == IF EngineErr(id, ok) # "" THEN EngineErr(id, ok)
                ELSE IF networkID \in DOMAIN containers[id].networks THEN ErrEndpoint(networkID)
                ELSE ""
       IN /\ req' = [op |-> "NetworkConnect", id |-> id, arg |-> [networkID |-> networkID],
                     resp |-> [err |-> e]]
          /\ call' = [op |-> "ConnectToNetwork", h |-> h, args |-> <<networkID>>, err |-> e, val |-> ""]
          /\ containers' =
                IF e = ""
                THEN [containers EXCEPT ![id].networks =
                        [n \in DOMAIN @ \cup {networkID} |->
                            IF n = networkID
                            THEN [IPAddress |-> NetworkIP(networkID, containers[id].num)]
                            ELSE @[n]]]
                ELSE containers
    /\ UNCHANGED <<pkg, handles, nextNum, stream, hist>>

\* DisconnectFromNetwork(networkID): force is true
DisconnectFromNetwork(h, networkID, ok) ==
    /\ Callable(h)
    /\ LET id == handles[h].id
           e == IF EngineErr(id, ok) # "" THEN EngineErr(id, ok)
                ELSE IF networkID \notin DOMAIN containers[id].networks THEN ErrEndpoint(networkID)
                ELSE ""
       IN /\ req' = [op |-> "NetworkDisconnect", id |-> id,
                     arg |-> [networkID |-> networkID, force |-> TRUE],
                     resp |-> [err |-> e]]
          /\ call' = [op |-> "DisconnectFromNetwork", h |-> h, args |-> <<networkID>>, err |-> e, val |-> ""]
          /\ containers' =
                IF e = ""
                THEN [containers EXCEPT ![id].networks = [n \in DOMAIN @ \ {networkID} |-> @[n]]]
                ELSE containers
    /\ UNCHANGED <<pkg, handles, nextNum, stream, hist>>

\* Start()
Start(h, ok) ==
    /\ Callable(h)
    /\ LET id == handles[h].id
           e == EngineErr(id, ok)
       IN /\ req' = [op |-> "ContainerStart", id |-> id, arg |-> <<>>, resp |-> [err |-> e]]
          /\ call' = [op |-> "Start", h |-> h, args |-> <<>>, err |-> e, val |-> ""]
          /\ containers' = IF e = "" THEN [containers EXCEPT ![id].state = "running"] ELSE containers
          /\ hist' = IF e = "" THEN [hist EXCEPT ![h].started = (@ \/ hist[h].name # "")] ELSE hist
    /\ UNCHANGED <<pkg, handles, nextNum, stream>>

\* Mutant: the removal is not forced.
RemoveOptionsUnforced == [RemoveVolumes |-> FALSE, RemoveLinks |-> FALSE, Force |-> FALSE]

\* Remove(): the removal options
RemoveOptions == [RemoveVolumes |-> FALSE, RemoveLinks |-> FALSE, Force |-> TRUE]

\* The engine's answer to ContainerRemove: a running container is removed
\* only when forced.
RemoveErr(id, options, ok) ==
    IF EngineErr(id, ok) # "" THEN EngineErr(id, ok)
    ELSE IF containers[id].state = "running" /\ ~options.Force THEN ErrConflict
    ELSE ""

\* Remove()
Remove(h, ok) ==
    /\ Callable(h)
    /\ LET id == handles[h].id
           e == RemoveErr(id, RemoveOptions, ok)
       IN /\ req' = [op |-> "ContainerRemove", id |-> id, arg |-> RemoveOptions, resp |-> [err |-> e]]
          /\ call' = [op |-> "Remove", h |-> h, args |-> <<>>, err |-> e, val |-> ""]
          /\ containers' = IF e = "" THEN [c \in DOMAIN containers \ {id} |-> containers[c]]
                           ELSE containers
    /\ UNCHANGED <<pkg, handles, nextNum, stream, hist>>

\* Durations are in seconds.
Minute == 60

\* Stop's variadic argument: nil when Stop() is called with no argument.
NoTimeout == [nil |-> TRUE, elems |-> <<>>]

\* Mutant: the last of the timeouts given is taken.
StopDurationLast(optionalTimeout) ==
    IF ~optionalTimeout.nil THEN optionalTimeout.elems[Len(optionalTimeout.elems)] ELSE 3 * Minute

\* Stop: the duration handed to the engine.
StopDuration(optionalTimeout) ==
    IF ~optionalTimeout.nil THEN optionalTimeout.elems[1] ELSE 3 * Minute

\* Stop(optionalTimeout...)
Stop(h, optionalTimeout, code, ok) ==
    /\ Callable(h)
    /\ IF ~optionalTimeout.nil /\ optionalTimeout.elems = <<>>
       THEN \* optionalTimeout[0] of an empty, non-nil slice
            /\ call' = [op |-> "Stop", h |-> h, args |-> <<optionalTimeout>>,
                        err |-> ErrPanic, val |-> ""]
            /\ req' = NoReq
            /\ UNCHANGED containers
       ELSE LET id == handles[h].id
                e == EngineErr(id, ok)
            IN /\ req' = [op |-> "ContainerStop", id |-> id,
                          arg |-> [timeout |-> StopDuration(optionalTimeout)],
                          resp |-> [err |-> e]]
               /\ call' = [op |-> "Stop", h |-> h, args |-> <<optionalTimeout>>, err |-> e, val |-> ""]
               /\ containers' =
                    IF e = "" /\ containers[id].state = "running"
                    THEN [containers EXCEPT ![id].state = "exited", ![id].exitCode = code]
                    ELSE containers
    /\ UNCHANGED <<pkg, handles, nextNum, stream, hist>>

\* The engine's answer to ContainerInspect.
Inspect(id, ok) ==
    IF EngineErr(id, ok) # ""
    THEN [err |-> EngineErr(id, ok), ExitCode |-> 0, Networks |-> <<>>]
    ELSE [err |-> "", ExitCode |-> containers[id].exitCode, Networks |-> containers[id].networks]

\* ExitStatus()
ExitStatus(h, ok) ==
    /\ Callable(h)
    /\ LET id == handles[h].id
           resp == Inspect(id, ok)
       IN /\ req' = [op |-> "ContainerInspect", id |-> id, arg |-> <<>>, resp |-> resp]
          /\ call' = [op |-> "ExitStatus", h |-> h, args |-> <<>>, err |-> resp.err,
                      val |-> IF resp.err # "" THEN -1 ELSE resp.ExitCode]
    /\ UNCHANGED <<pkg, handles, containers, nextNum, stream, hist>>

ErrNoIP(network) == "IP address in " \o network \o " could not be determined"

\* Mutant: the address of whichever network comes first is returned.
IPResultAnyNetwork(resp, network) ==
    IF resp.err # "" THEN [val |-> "", err |-> resp.err]
    ELSE IF DOMAIN resp.Networks # {}
         THEN [val |-> resp.Networks[CHOOSE name \in DOMAIN resp.Networks : TRUE].IPAddress,
               err |-> ""]
         ELSE [val |-> "", err |-> ErrNoIP(network)]

\* IP(network) given the engine's answer to ContainerInspect.
IPResult(resp, network) ==
    IF resp.err # "" THEN [val |-> "", err |-> resp.err]
    ELSE IF \E name \in DOMAIN resp.Networks : name = network
         THEN [val |-> resp.Networks[network].IPAddress, err |-> ""]
         ELSE [val |-> "", err |-> ErrNoIP(network)]

\* IP(network)
IP(h, network, ok) ==
    /\ Callable(h)
    /\ LET id == handles[h].id
           resp == Inspect(id, ok)
       IN /\ req' = [op |-> "ContainerInspect", id |-> id, arg |-> <<>>, resp |-> resp]
          /\ call' = [op |-> "IP", h |-> h, args |-> <<network>>,
                      err |-> IPResult(resp, network).err, val |-> IPResult(resp, network).val]
    /\ UNCHANGED <<pkg, handles, containers, nextNum, stream, hist>>

\* Mutant: the stream follows the container's output.
LogsOptionsFollow ==
    [ShowStdout |-> TRUE, ShowStderr |-> TRUE, Since |-> "", Timestamps |-> FALSE,
     Follow |-> TRUE, Tail |-> "", Details |-> FALSE]

\* Logs(): the options of the request
LogsOptions ==
    [ShowStdout |-> TRUE, ShowStderr |-> TRUE, Since |-> "", Timestamps |-> FALSE,
     Follow |-> FALSE, Tail |-> "", Details |-> FALSE]

\* Logs()
Logs(h, ok) ==
    /\ Callable(h)
    /\ LET id == handles[h].id
           e == EngineErr(id, ok)
       IN /\ req' = [op |-> "ContainerLogs", id |-> id, arg |-> LogsOptions, resp |-> [err |-> e]]
          /\ call' = [op |-> "Logs", h |-> h, args |-> <<>>, err |-> e, val |-> ""]
          /\ stream' = IF e = ""
                       THEN [open |-> TRUE, id |-> id, follow |-> LogsOptions.Follow,
                             at |-> containers[id].log, pos |-> 0, eof |-> FALSE]
                       ELSE stream
    /\ UNCHANGED <<pkg, handles, containers, nextNum, hist>>

\* ------------------------------------------- the stream and the container
Running(id) == Exists(id) /\ containers[id].state = "running"

\* What the engine has to deliver on the stream: without Follow the output
\* there was when the request was served, with Follow all output so far.
Available == IF stream.follow THEN containers[stream.id].log ELSE stream.at

\* The caller reads the stream Logs returned: the next line, or the end.
ReadStream ==
    /\ ~Panicked
    /\ stream.open /\ ~stream.eof
    /\ IF Exists(stream.id) /\ stream.pos < Available
       THEN stream' = [stream EXCEPT !.pos = @ + 1]
       ELSE /\ ~stream.follow \/ ~Running(stream.id)
            /\ stream' = [stream EXCEPT !.eof = TRUE]
    /\ UNCHANGED <<pkg, handles, containers, nextNum, call, req, hist>>

\* The caller closes the stream.
CloseStream ==
    /\ ~Panicked
    /\ stream.open
    /\ stream' = NoStream
    /\ UNCHANGED <<pkg, handles, containers, nextNum, call, req, hist>>

\* A running container writes a line to its standard output or error.
ContainerWrites(id) ==
    /\ Running(id)
    /\ containers[id].log < MaxLog
    /\ containers' = [containers EXCEPT ![id].log = @ + 1]
    /\ UNCHANGED <<pkg, handles, nextNum, call, req, stream, hist>>

\* A running container's process exits by itself.
ContainerExits(id, code) ==
    /\ Running(id)
    /\ containers' = [containers EXCEPT ![id].state = "exited", ![id].exitCode = code]
    /\ UNCHANGED <<pkg, handles, nextNum, call, req, stream, hist>>

\* ------------------------------------------------------------------ inputs
PeerProfiles ==
    { [dp |-> "", snap |-> "snapshots/peer.bin", seed |-> "seedA",
       pk |-> "EntryKeyA", host |-> "entry-node"],
      [dp |-> "dashboard,spammer", snap |-> "/assets/export.bin", seed |-> "seedB",
       pk |-> "EntryKeyB", host |-> "10.1.0.2"] }

NodeConfigs ==
    { [Name |-> n, DisabledPlugins |-> p.dp, Coordinator |-> c, SnapshotFilePath |-> p.snap,
       AutopeeringSeed |-> p.seed, EntryNodePublicKey |-> p.pk, EntryNodeHost |-> p.host] :
      n \in Names, c \in BOOLEAN, p \in PeerProfiles }

SeqsUpTo(S, n) == UNION {[1..k -> S] : k \in 0..n}

TargetLists == SeqsUpTo(TargetIPs, MaxTargets)

\* Stop's arguments: none, an empty non-nil slice, or up to MaxTimeouts durations.
TimeoutArgs ==
    {NoTimeout} \cup {[nil |-> FALSE, elems |-> e] : e \in SeqsUpTo(Timeouts, MaxTimeouts)}

IdsInUse == {IdOf(n) : n \in 1..MaxContainers}

\* ----------------------------------------------------------- specifications
DefaultPkg == CHOOSE p \in PkgChoices : p.APIPort = 14265

\* The package values as the parameter file sets them once.
InitDefault == Init /\ pkg = DefaultPkg

\* The handle's life cycle against the engine.
Next ==
    \/ \E h \in Handles : NewDockerContainer(h)
    \/ \E h \in Handles, name \in QueryNames, ok \in BOOLEAN :
          NewDockerContainerFromExisting(h, name, ok)
    \/ \E h \in Handles, name \in Names, ok \in BOOLEAN : CreateContainer(h, name, ok)
    \/ \E h \in Handles : CreateHornetEntryNode(h, "peer-1", "seedA", TRUE)
    \/ \E h \in Handles : Start(h, TRUE)
    \/ \E h \in Handles : Stop(h, NoTimeout, 0, TRUE)
    \/ \E h \in Handles, ok \in BOOLEAN : Remove(h, ok)
    \/ \E h \in Handles : ExitStatus(h, TRUE)
    \/ \E id \in IdsInUse : ContainerExits(id, 0)

Spec == InitDefault /\ [][Next]_vars

\* The role configuration builders, over all their inputs.
NextConfig ==
    \/ \E h \in Handles : NewDockerContainer(h)
    \/ \E h \in Handles, name \in Names, seed \in Seeds, ok \in BOOLEAN :
          CreateHornetEntryNode(h, name, seed, ok)
    \/ \E h \in Handles, config \in NodeConfigs : CreateHornetPeer(h, config, TRUE)
    \/ \E h \in Handles, containerName \in Names, ips \in TargetLists :
          CreatePumba(h, "pumba", containerName, ips, TRUE)
    \/ \E h \in Handles : Remove(h, TRUE)

SpecConfig == Init /\ [][NextConfig]_vars

\* Stop, over all its arguments.
NextStop ==
    \/ \E h \in Handles : NewDockerContainer(h)
    \/ \E h \in Handles : CreateContainer(h, "peer-1", TRUE)
    \/ \E h \in Handles : Start(h, TRUE)
    \/ \E h \in Handles, t \in TimeoutArgs, code \in ExitCodes, ok \in BOOLEAN :
          Stop(h, t, code, ok)

SpecStop == InitDefault /\ [][NextStop]_vars

\* Networks: attach, detach and address lookup.
NextNet ==
    \/ \E h \in Handles : NewDockerContainer(h)
    \/ \E h \in Handles : CreateContainer(h, "peer-1", TRUE)
    \/ \E h \in Handles : Start(h, TRUE)
    \/ \E h \in Handles, n \in Networks, ok \in BOOLEAN : ConnectToNetwork(h, n, ok)
    \/ \E h \in Handles, n \in Networks, ok \in BOOLEAN : DisconnectFromNetwork(h, n, ok)
    \/ \E h \in Handles, n \in Networks, ok \in BOOLEAN : IP(h, n, ok)
    \/ \E h \in Handles : Remove(h, TRUE)

SpecNet == InitDefault /\ [][NextNet]_vars

\* Logs: the stream, its reader and the container writing to it.
NextLogs ==
    \/ \E h \in Handles : NewDockerContainer(h)
    \/ \E h \in Handles : CreateContainer(h, "peer-1", TRUE)
    \/ \E h \in Handles : Start(h, TRUE)
    \/ \E h \in Handles, ok \in BOOLEAN : Logs(h, ok)
    \/ ReadStream
    \/ CloseStream
    \/ \E id \in IdsInUse : ContainerWrites(id)
    \/ \E id \in IdsInUse : ContainerExits(id, 0)
    \/ \E h \in Handles : Remove(h, TRUE)

SpecLogs == InitDefault /\ [][NextLogs]_vars

\* ------------------------------------------------------------------ claims
\* Helpers of the claims' formulas.
CountPrefix(cmd, p) == Cardinality({i \in 1..Len(cmd) : HasPrefix(cmd[i], p)})
Count(cmd, x) == Cardinality({i \in 1..Len(cmd) : cmd[i] = x})
Contains(s, sub) == \E i \in 1..(Len(s) - Len(sub) + 1) : SubSeq(s, i, i + Len(sub) - 1) = sub
DigitVal(c) == CHOOSE d \in 0..9 : Digits[d + 1] = c

RECURSIVE Atoi(_)
Atoi(s) ==
    IF Len(s) = 0 THEN 0
    ELSE Atoi(SubSeq(s, 1, Len(s) - 1)) * 10 + DigitVal(SubSeq(s, Len(s), Len(s)))

\* The one flag of cmd that starts with p carries the decimal number n.
OneFlagInt(cmd, p, n) ==
    /\ CountPrefix(cmd, p) = 1
    /\ \A i \in 1..Len(cmd) : HasPrefix(cmd[i], p) => Atoi(TrimPrefix(cmd[i], p)) = n

\* The one flag of cmd that starts with p carries the text v.
OneFlagStr(cmd, p, v) ==
    /\ CountPrefix(cmd, p) = 1
    /\ \A i \in 1..Len(cmd) : HasPrefix(cmd[i], p) => TrimPrefix(cmd[i], p) = v

\* The command line of the last creation request.
SentCmd == req.arg.config.Cmd

\* The five coordinator flags, each once, with the package's values.
CoordinatorFlagsSent ==
    /\ OneFlagStr(SentCmd, "--coordinator.address=", pkg.coordinatorAddress)
    /\ OneFlagInt(SentCmd, "--coordinator.securityLevel=", pkg.coordinatorSecurityLevel)
    /\ OneFlagInt(SentCmd, "--coordinator.merkleTreeDepth=", pkg.coordinatorMerkleTreeDepth)
    /\ OneFlagInt(SentCmd, "--coordinator.intervalSeconds=", pkg.coordinatorIntervalSeconds)
    /\ OneFlagInt(SentCmd, "--coordinator.mwm=", pkg.ParaPoWDifficulty)

PeerCalled == call.op = "CreateHornetPeer" /\ req.op = "ContainerCreate"

\* C1 as stated: a peer with the coordinator disabled is created with no
\* coordinator-address flag on its command line.
C1_NoAddressFlagWhenDisabled ==
    (PeerCalled /\ ~call.args[1].Coordinator)
        => CountPrefix(SentCmd, "--coordinator.address=") = 0

\* C1 amended: every peer, coordinator enabled or not, is created with the five
\* coordinator flags carrying the package's values; with the coordinator
\* disabled the enabled-plugins flag is there once and lists no plugin.
C1_FlagsAlwaysPluginOnlyWhenRequested ==
    PeerCalled =>
        /\ CoordinatorFlagsSent
        /\ ~call.args[1].Coordinator => OneFlagStr(SentCmd, "--node.enablePlugins=", "")

C1_Witness == PeerCalled /\ ~call.args[1].Coordinator /\ call.err = ""

\* C9: a peer with the coordinator enabled is created with exactly one
\* coordinator-address flag carrying the configured address, exactly one each
\* of the security-level, Merkle-tree-depth, interval and PoW-difficulty flags
\* carrying the configured values, and an enabled-plugins flag that lists the
\* Coordinator plugin.
C9_CoordinatorPeerFlags ==
    (PeerCalled /\ call.args[1].Coordinator) =>
        /\ CoordinatorFlagsSent
        /\ OneFlagStr(SentCmd, "--node.enablePlugins=", "Coordinator")

C9_Witness == PeerCalled /\ call.args[1].Coordinator /\ call.err = "" /\ pkg.ParaPoWDifficulty = 14

EntryNodeCalled == call.op = "CreateHornetEntryNode" /\ req.op = "ContainerCreate"

\* C6: an entry node is created with the empty entry-node list flag, with one
\* seed flag that carries the input seed (as base58 text), and with no
\* coordinator flag.
C6_EntryNodeFlags ==
    EntryNodeCalled =>
        /\ Count(SentCmd, "--autopeering.entryNodes=") = 1
        /\ CountPrefix(SentCmd, "--autopeering.entryNodes=") = 1
        /\ OneFlagStr(SentCmd, "--autopeering.seed=", "base58:" \o call.args[2])
        /\ CountPrefix(SentCmd, "--coordinator.") = 0

C6_Witness == EntryNodeCalled /\ call.args[2] = "seedB" /\ call.err = ""

PumbaCalled == call.op = "CreatePumba" /\ req.op = "ContainerCreate"

\* C7: for target IPs ip1..ipn the chaos agent's command line is the base
\* invocation, then exactly n --target flags, one per IP in input order, then
\* the fixed fault profile ending with the target container's name.
C7_PumbaCommandLine ==
    PumbaCalled =>
        LET ips == call.args[3]
            n == Len(ips)
        IN /\ Len(SentCmd) = 3 + n + 4
           /\ SubSeq(SentCmd, 1, 3) = <<"--log-level=debug", "netem", "--duration=100m">>
           /\ \A i \in 1..n : SentCmd[3 + i] = "--target=" \o ips[i]
           /\ CountPrefix(SentCmd, "--target=") = n
           /\ SubSeq(SentCmd, 4 + n, 7 + n) =
                <<"--tc-image=gaiadocker/iproute2", "loss", "--percent=100", call.args[2]>>

C7_Witness ==
    PumbaCalled /\ call.err = "" /\ Len(call.args[3]) = 2 /\ call.args[3][1] # call.args[3][2]

StopCalled == call.op = "Stop" /\ req.op = "ContainerStop"

\* C8: Stop() with no argument asks the engine to stop the handle's own
\* container with a timeout of 3 minutes; Stop(t, ...) asks with exactly the
\* first timeout given, not the default.
C8_StopTimeout ==
    StopCalled =>
        LET t == call.args[1]
        IN /\ req.id = handles[call.h].id
           /\ t.nil => req.arg.timeout = 180
           /\ ~t.nil => req.arg.timeout = t.elems[1] /\ req.arg.timeout # 180

C8_Witness ==
    /\ StopCalled /\ call.err = ""
    /\ ~call.args[1].nil /\ call.args[1].elems = <<5, 240>>
    /\ containers[req.id].state = "exited"

IPCalled == call.op = "IP" /\ req.op = "ContainerInspect"

\* C3: with the container attached to the networks N, IP(n) for n in N returns
\* the address the engine reports for n and no error; IP(c) for c not in N
\* returns an error that names c and is no engine error; an error of the
\* inspection itself is returned unchanged.
C3_IPLookup ==
    IPCalled =>
        LET n == call.args[1]
        IN IF req.resp.err # ""
           THEN call.err = req.resp.err /\ call.err \in EngineErrors /\ call.val = ""
           ELSE LET N == DOMAIN containers[req.id].networks
                IN /\ req.id = handles[call.h].id
                   /\ n \in N =>
                        /\ call.err = ""
                        /\ call.val = containers[req.id].networks[n].IPAddress
                        /\ call.val = NetworkIP(n, containers[req.id].num)
                        /\ \A m \in N \ {n} : call.val # containers[req.id].networks[m].IPAddress
                   /\ n \notin N =>
                        /\ call.val = ""
                        /\ call.err # ""
                        /\ Contains(call.err, n)
                        /\ \A m \in Networks \ {n} : ~Contains(call.err, m)
                        /\ call.err \notin EngineErrors

C3_Witness ==
    /\ IPCalled /\ call.err = "" /\ call.args[1] = "netA"
    /\ DOMAIN containers[req.id].networks = {"netA", "netB"}

FromExistingCalled == call.op = "NewDockerContainerFromExisting" /\ req.op = "ContainerList"

\* The places of the listed containers whose primary name is name.
Matches(list, name) == {i \in 1..Len(list) : list[i].Names[1] = name}

\* C4: over the list the engine returns, NewDockerContainerFromExisting(name)
\* fails with an error naming name and returns no handle when no container's
\* primary name equals name (the empty list included); otherwise it returns a
\* handle whose id is that of the first container in list order whose primary
\* name equals name.
C4_ResolveByName ==
    (FromExistingCalled /\ req.resp.err = "") =>
        LET list == req.resp.list
            name == call.args[1]
        IN IF Matches(list, name) = {}
           THEN /\ call.err # "" /\ Contains(call.err, name)
                /\ call.err \notin EngineErrors
                /\ call.h = 0 /\ call.val = "nil"
           ELSE /\ call.err = ""
                /\ call.h \in Handles
                /\ handles[call.h].alloc
                /\ \E i \in Matches(list, name) :
                      /\ \A j \in Matches(list, name) : i <= j
                      /\ handles[call.h].id = list[i].ID
                      /\ call.val = list[i].ID

C4_Witness ==
    /\ FromExistingCalled /\ call.err = ""
    /\ Len(req.resp.list) = 2
    /\ Matches(req.resp.list, call.args[1]) = {2}

RemoveCalled == call.op = "Remove" /\ req.op = "ContainerRemove"

\* C5: after Create(name), Start and Remove on a handle, each succeeding, no
\* container is resolvable by that name: resolving it fails with not-found.
\* Remove is refused for no state of the container (created, running or
\* stopped): it fails only when the engine is unreachable or the container
\* does not exist.
C5_RemoveLeavesNothingResolvable ==
    RemoveCalled =>
        /\ call.err # "" => call.err \in {ErrTransport, ErrNoSuchContainer(req.id)}
        /\ call.err = "" =>
            /\ ~Exists(req.id)
            /\ req.arg.Force
            /\ hist[call.h].name # "" =>
                 \A q \in {hist[call.h].name, "/" \o hist[call.h].name} :
                    /\ FromExistingResult("", ContainerList, q).err = ErrNotFound(q)
                    /\ FromExistingResult("", ContainerList, q).handle = "nil"

C5_Witness ==
    /\ RemoveCalled /\ call.err = ""
    /\ hist[call.h].started /\ hist[call.h].name = "peer-1"
    /\ Len(ContainerList) = 1

\* C2 as stated: once a handle's id is set it never changes, whatever is
\* called on the handle, a second successful creation included.
C2_IdNeverChanges ==
    [][\A h \in Handles : handles[h].id # NoId => handles'[h].id = handles[h].id]_vars

\* C10 as stated: the stream Logs returned does not end while the container
\* is running and the caller is reading.
C10_StreamLive ==
    [][(stream.open /\ ~stream.eof /\ stream'.open /\ stream'.eof) => ~Running(stream.id)]_vars

\* C10 amended: Logs asks for the combined standard output and standard error
\* from the container's start without following; the stream delivers no more
\* than the output there was when Logs was called and, once that is read,
\* ends, also while the container is running and the caller is reading.
C10_StreamIsSnapshot ==
    /\ (call.op = "Logs" /\ req.op = "ContainerLogs") =>
         /\ req.arg.ShowStdout /\ req.arg.ShowStderr
         /\ req.arg.Since = "" /\ req.arg.Tail = ""
         /\ ~req.arg.Follow
         /\ req.id = handles[call.h].id
    /\ stream.open =>
         /\ stream.pos <= stream.at
         /\ stream.eof /\ Exists(stream.id) => stream.pos = stream.at
         /\ (~stream.eof /\ Exists(stream.id) /\ stream.pos = stream.at) => ENABLED ReadStream

C10_Witness ==
    /\ stream.open /\ stream.eof
    /\ Running(stream.id)
    /\ stream.at > 0 /\ stream.pos = stream.at
    /\ containers[stream.id].log > stream.at

====
